---------------------------- MODULE Spec2Model ----------------------------
(***************************************************************************)
(* Model of scripts/generate-builtin-terminfo.py: parse a terminfo source  *)
(* into fragments, expand 'use' capabilities, patch the selected entry,    *)
(* serialize it sorted by name and write the generated header.             *)
(*                                                                         *)
(* A Python str is a sequence of one-character strings; a dict is the      *)
(* sequence of its items in insertion order.                               *)
(***************************************************************************)
EXTENDS Integers, Sequences, FiniteSets, TLC

(***************************************************************************)
(* Bounds of the model.                                                    *)
(***************************************************************************)
MaxFrags == 3
MaxCaps == 2
MaxTotalCaps == 3
MaxSortCaps == 4

(***************************************************************************)
(* Characters and strings.                                                 *)
(***************************************************************************)
BS == "\\"
DQ == "\""

\* The printable ASCII characters, code points 32 .. 126, in order (the
\* grave accent, code point 96, is spelled out).
Ascii ==
  << " ", "!", DQ, "#", "$", "%", "&", "'", "(", ")", "*", "+", ",", "-", ".", "/",
     "0", "1", "2", "3", "4", "5", "6", "7", "8", "9", ":", ";", "<", "=", ">", "?",
     "@", "A", "B", "C", "D", "E", "F", "G", "H", "I", "J", "K", "L", "M", "N", "O",
     "P", "Q", "R", "S", "T", "U", "V", "W", "X", "Y", "Z", "[", BS, "]", "^", "_",
     "grave", "a", "b", "c", "d", "e", "f", "g", "h", "i", "j", "k", "l", "m", "n", "o",
     "p", "q", "r", "s", "t", "u", "v", "w", "x", "y", "z", "{", "|", "}", "~" >>

\* ord(c)
Ord(c) == 31 + CHOOSE i \in 1..Len(Ascii) : Ascii[i] = c

\* Python's str.__lt__: lexicographic by code point.
RECURSIVE StrLt(_, _)
StrLt(a, b) ==
  IF b = <<>> THEN FALSE
  ELSE IF a = <<>> THEN TRUE
  ELSE IF Head(a) = Head(b) THEN StrLt(Tail(a), Tail(b))
  ELSE Ord(Head(a)) < Ord(Head(b))

Drop(s, n) == SubSeq(s, n + 1, Len(s))

\* s.startswith(p)
StartsWith(s, p) == Len(s) >= Len(p) /\ SubSeq(s, 1, Len(p)) = p

\* str.replace(old, new) for a non-empty old
RECURSIVE Replace(_, _, _)
Replace(s, old, new) ==
  IF s = <<>> THEN <<>>
  ELSE IF StartsWith(s, old) THEN new \o Replace(Drop(s, Len(old)), old, new)
  ELSE <<Head(s)>> \o Replace(Tail(s), old, new)

HexDigits == <<"0", "1", "2", "3", "4", "5", "6", "7", "8", "9", "a", "b", "c", "d", "e", "f">>
DecDigits == {"0", "1", "2", "3", "4", "5", "6", "7", "8", "9"}
OctDigits == {"0", "1", "2", "3", "4", "5", "6", "7"}

\* The characters of the class [@A-Z[\\\]^_?]
CtrlChars == {Ascii[i] : i \in 33..64} \cup {"?"}

\* translate_ctrl_chr
translate_ctrl_chr(ctrl) ==
  IF ctrl = "?" THEN <<BS, "x", "7", "f">>
  ELSE <<BS, "x", HexDigits[((Ord(ctrl) - Ord("@")) \div 16) + 1],
                  HexDigits[((Ord(ctrl) - Ord("@")) % 16) + 1]>>

\* re.sub(r'\^([@A-Z[\\\\\]^_?])', translate_ctrl_chr, value)
RECURSIVE SubCtrl(_)
SubCtrl(s) ==
  IF s = <<>> THEN <<>>
  ELSE IF Len(s) >= 2 /\ s[1] = "^" /\ s[2] \in CtrlChars
       THEN translate_ctrl_chr(s[2]) \o SubCtrl(Drop(s, 2))
  ELSE <<Head(s)>> \o SubCtrl(Tail(s))

\* re.sub(r'(\\E|\\e)([0-7])', r'\\033" "\2', value)
RECURSIVE SubEscDigit(_)
SubEscDigit(s) ==
  IF s = <<>> THEN <<>>
  ELSE IF Len(s) >= 3 /\ s[1] = BS /\ s[2] \in {"E", "e"} /\ s[3] \in OctDigits
       THEN <<BS, "0", "3", "3", DQ, " ", DQ, s[3]>> \o SubEscDigit(Drop(s, 3))
  ELSE <<Head(s)>> \o SubEscDigit(Tail(s))

\* re.sub(r'\\E|\\e', r'\\033', value)
RECURSIVE SubEsc(_)
SubEsc(s) ==
  IF s = <<>> THEN <<>>
  ELSE IF Len(s) >= 2 /\ s[1] = BS /\ s[2] \in {"E", "e"}
       THEN <<BS, "0", "3", "3">> \o SubEsc(Drop(s, 2))
  ELSE <<Head(s)>> \o SubEsc(Tail(s))

\* re.sub(r'\\(,|:|\^)', r'\1', value)
RECURSIVE Unescape(_)
Unescape(s) ==
  IF s = <<>> THEN <<>>
  ELSE IF Len(s) >= 2 /\ s[1] = BS /\ s[2] \in {",", ":", "^"}
       THEN <<s[2]>> \o Unescape(Drop(s, 2))
  ELSE <<Head(s)>> \o Unescape(Tail(s))

\* re.search(r'\\l', value)
HasBackslashL(s) == \E i \in 1..(Len(s) - 1) : s[i] = BS /\ s[i + 1] = "l"

\* The value StringCapability.__init__ hands to Capability.__init__,
\* before the \l check.
Translate(value) ==
  Replace(Unescape(SubEsc(SubEscDigit(SubCtrl(value)))), <<BS, "s">>, <<" ">>)


\* int(s, 16) / int(s, 2) digit value
DigitVal(c) ==
  IF c \in DecDigits THEN Ord(c) - Ord("0")
  ELSE IF c \in {"a", "b", "c", "d", "e", "f"} THEN Ord(c) - Ord("a") + 10
  ELSE Ord(c) - Ord("A") + 10

RECURSIVE BaseVal(_, _, _)
BaseVal(s, base, acc) ==
  IF s = <<>> THEN acc ELSE BaseVal(Tail(s), base, acc * base + DigitVal(Head(s)))

\* int(int_val, 0) on a match of (0x)?[0-9a-fA-F]+ : base auto-detection;
\* err is the exception raised, "" for none.
ParseInt(s) ==
  IF StartsWith(s, <<"0", "x">>) /\ Len(s) > 2
    THEN [err |-> "", val |-> BaseVal(Drop(s, 2), 16, 0)]
  ELSE IF Len(s) >= 2 /\ s[1] = "0" /\ s[2] \in {"b", "B"}
    THEN IF Len(s) > 2 /\ \A i \in 3..Len(s) : s[i] \in {"0", "1"}
         THEN [err |-> "", val |-> BaseVal(Drop(s, 2), 2, 0)]
         ELSE [err |-> "ValueError", val |-> 0]
  ELSE IF \A i \in 1..Len(s) : s[i] \in DecDigits
    THEN IF s[1] # "0" \/ \A i \in 1..Len(s) : s[i] = "0"
         THEN [err |-> "", val |-> BaseVal(s, 10, 0)]
         ELSE [err |-> "ValueError", val |-> 0]
  ELSE [err |-> "ValueError", val |-> 0]

\* str(n) for an int n >= 0
RECURSIVE IntStr(_)
IntStr(n) ==
  IF n < 10 THEN <<HexDigits[n + 1]>> ELSE IntStr(n \div 10) \o <<HexDigits[(n % 10) + 1]>>

(***************************************************************************)
(* Capabilities.  A capability is [name, kind, num, str]: num is the value *)
(* of an Int capability (True, that is 1, for a Bool), str the value of a  *)
(* Str capability.                                                         *)
(***************************************************************************)
N_use == <<"u", "s", "e">>
N_RGB == <<"R", "G", "B">>
N_Co == <<"C", "o">>
N_TN == <<"T", "N">>
N_name == <<"n", "a", "m", "e">>
N_query_os_name == <<"q", "u", "e", "r", "y", "-", "o", "s", "-", "n", "a", "m", "e">>

BoolCapability(name) == [name |-> name, kind |-> "Bool", num |-> 1, str |-> <<>>]

IntCapability(name, value) == [name |-> name, kind |-> "Int", num |-> value, str |-> <<>>]

\* StringCapability.__init__: the capability, or the exception it raises.
StringCapability(name, value) ==
  [err |-> IF HasBackslashL(Translate(value)) THEN "NotImplementedError" ELSE "",
   cap |-> [name |-> name, kind |-> "Str", num |-> 0, str |-> Translate(value)]]

\* str(cap.value)
ValueStr(cap) ==
  CASE cap.kind = "Bool" -> <<"T", "r", "u", "e">>
    [] cap.kind = "Int" -> IntStr(cap.num)
    [] OTHER -> cap.str

\* Capability.__lt__ with the comparison the wrong way round
CapLtReversed(a, b) == StrLt(b.name, a.name)

\* Capability.__lt__
CapLt(a, b) == StrLt(a.name, b.name)

(***************************************************************************)
(* Dicts: the sequence of [key, val] items in insertion order.             *)
(***************************************************************************)
Keys(d) == {d[i].key : i \in 1..Len(d)}

Get(d, k) == d[CHOOSE i \in 1..Len(d) : d[i].key = k].val

\* d[k] = v : an existing key keeps its place
DictSet(d, k, v) ==
  IF k \in Keys(d)
  THEN [i \in 1..Len(d) |-> IF d[i].key = k THEN [key |-> k, val |-> v] ELSE d[i]]
  ELSE Append(d, [key |-> k, val |-> v])

\* del d[k] for a key of d
DictDel(d, k) == SelectSeq(d, LAMBDA it : it.key # k)

\* Fragment.add_capability without its assertion
add_capability_unchecked(caps, cap) == [err |-> "", caps |-> DictSet(caps, cap.name, cap)]

\* Fragment.add_capability on the caps of a fragment: the new caps, or the
\* AssertionError of a name already present.
add_capability(caps, cap) ==
  IF cap.name \in Keys(caps)
  THEN [err |-> "AssertionError", caps |-> caps]
  ELSE [err |-> "", caps |-> DictSet(caps, cap.name, cap)]

\* Fragment.del_capability
del_capability(caps, name) == DictDel(caps, name)

\* for use_cap in use_frag.caps.values(): frag.add_capability(use_cap)
\* It stops at the first add that raises, keeping the ones before it.
RECURSIVE AddAll(_, _)
AddAll(caps, items) ==
  IF items = <<>> THEN [err |-> "", caps |-> caps]
  ELSE LET r == add_capability(caps, Head(items).val)
       IN IF r.err # "" THEN r ELSE AddAll(r.caps, Tail(items))

\* Fragment(name, description); the description is stored and never read.
Fragment(name) == [name |-> name, caps |-> <<>>]

FragNamesOf(frs) == {frs[i].name : i \in 1..Len(frs)}

FragIndex(frs, name) == CHOOSE i \in 1..Len(frs) : frs[i].name = name

FragCaps(frs, name) == frs[FragIndex(frs, name)].caps

SetCaps(frs, name, caps) ==
  [i \in 1..Len(frs) |-> IF frs[i].name = name THEN [frs[i] EXCEPT !.caps = caps] ELSE frs[i]]

(***************************************************************************)
(* The inputs: the matches re.finditer yields on the source, as tokens     *)
(* [type, name, val], and the command line.                                *)
(***************************************************************************)
NameTok(n) == [type |-> "name", name |-> n, val |-> <<"d">>]
BoolTok(n) == [type |-> "bool_cap", name |-> n, val |-> <<>>]
IntTok(n, v) == [type |-> "int_cap", name |-> n, val |-> v]
StrTok(n, v) == [type |-> "str_cap", name |-> n, val |-> v]

FA == <<"A">>
FB == <<"B">>
FC == <<"C">>
FragNames == {FA, FB, FC}

\* Capabilities of the inputs that exercise 'use'.
UseCaps ==
  { BoolTok(<<"x">>), IntTok(<<"y">>, <<"1">>), StrTok(N_use, FB), StrTok(N_use, FC) }

\* Capabilities of the inputs that exercise the patch and the serializer.
PatchCaps ==
  { BoolTok(<<"x">>), BoolTok(N_RGB), IntTok(N_Co, <<"8">>),
    IntTok(<<"y">>, <<"0", "x", "1", "0">>), IntTok(<<"y">>, <<"0", "1", "0">>),
    StrTok(N_TN, <<"x">>), StrTok(N_name, <<"x">>),
    StrTok(<<"z">>, <<"a", DQ>>), StrTok(<<"z">>, <<BS, "E", "7">>),
    StrTok(<<"z">>, <<BS, "l">>) }

Matches ==
  {NameTok(n) : n \in FragNames} \cup UseCaps \cup PatchCaps \cup {StrTok(<<"z">>, <<BS, "l">>)}

IsCap(m) == m.type # "name"

NumCaps(s) == Cardinality({i \in 1..Len(s) : IsCap(s[i])})

\* The capability matches of s that follow its last header.
RECURSIVE LastRun(_)
LastRun(s) ==
  IF s = <<>> \/ ~IsCap(s[Len(s)]) THEN 0 ELSE 1 + LastRun(SubSeq(s, 1, Len(s) - 1))

\* Sources that exercise 'use': fragments of FragNames, each defined once
\* and after a header, at most MaxCaps capabilities of UseCaps in each and
\* MaxTotalCaps in all.
UseInput(s) ==
  /\ \A i \in 1..Len(s) : IsCap(s[i]) => s[i] \in UseCaps
  /\ s # <<>> => ~IsCap(s[1])
  /\ \A i, j \in 1..Len(s) : (i # j /\ ~IsCap(s[i]) /\ ~IsCap(s[j])) => s[i] # s[j]
  /\ Len(s) - NumCaps(s) <= MaxFrags
  /\ NumCaps(s) <= MaxTotalCaps
  /\ \A k \in 1..Len(s) : LastRun(SubSeq(s, 1, k)) <= MaxCaps

\* Sources that exercise the patch and the serializer: the fragment A with
\* at most MaxCaps capabilities of PatchCaps.
PatchInput(s) ==
  /\ s # <<>> => s[1] = NameTok(FA)
  /\ \A i \in 2..Len(s) : s[i] \in PatchCaps
  /\ Len(s) <= 1 + MaxCaps

\* Short sources of any shape: a capability before any header, a header
\* defined twice, an unsupported escape.
ShortInput(s) ==
  /\ \A i \in 1..Len(s) :
       s[i] \in {NameTok(FA), NameTok(FB), BoolTok(<<"x">>), IntTok(<<"y">>, <<"1">>),
                 StrTok(N_use, FB), StrTok(<<"z">>, <<BS, "l">>)}
  /\ Len(s) <= MaxCaps

SourceNames == {FA, FB}
TargetNames == { <<"f">>, <<"f", BS, "s">>, <<BS, "l">> }

\* os.uname().sysname
Sysname == <<"L", "i", "n", "u", "x">>

\* The runs of the model: s is (the start of) the source of a run with
\* the target entry name target.
Run(s, target) ==
  \/ UseInput(s) /\ target = <<"f">>
  \/ PatchInput(s)
  \/ ShortInput(s)

(***************************************************************************)
(* The state of a run.                                                     *)
(***************************************************************************)
VARIABLES
  input,              \* the matches the parse loop has consumed, in order
  source_entry_name,
  target_entry_name,
  fragments,          \* dict of Fragment, in insertion order
  cur_fragment,       \* name of the current fragment, None before any
  parsed,             \* fragments as the parse loop left them
  fi,                 \* the fragment the expansion loop is at
  terminfo_parts,
  terminfo,
  written,            \* what target.write has been handed, call by call
  pc,                 \* the part of main the run is in, or was in when it ended
  error               \* the exception that ended the run, "" for none

vars ==
  << input, source_entry_name, target_entry_name, fragments, cur_fragment,
     parsed, fi, terminfo_parts, terminfo, written, pc, error >>

None == <<>>

Init ==
  /\ input = <<>>
  /\ source_entry_name \in SourceNames
  /\ target_entry_name \in TargetNames
  /\ fragments = <<>>
  /\ cur_fragment = None
  /\ parsed = <<>>
  /\ fi = 1
  /\ terminfo_parts = <<>>
  /\ terminfo = <<>>
  /\ written = <<>>
  /\ pc = "parse"
  /\ error = ""

\* One match of the parse loop: the registry and current fragment it
\* leaves, or the exception it raises.
ParseMatch(m, frs, cur) ==
  LET ok(f, c) == [err |-> "", frs |-> f, cur |-> c]
      fail(e) == [err |-> e, frs |-> frs, cur |-> cur]
      add(cap) ==
        LET r == add_capability(FragCaps(frs, cur), cap)
        IN IF r.err # "" THEN fail(r.err) ELSE ok(SetCaps(frs, cur, r.caps), cur)
  IN CASE m.type = "name" ->
            IF m.name \in FragNamesOf(frs) THEN fail("AssertionError")
            ELSE ok(Append(frs, Fragment(m.name)), m.name)
       [] m.type = "bool_cap" ->
            IF cur = None THEN fail("AssertionError") ELSE add(BoolCapability(m.name))
       [] m.type = "int_cap" ->
            IF ParseInt(m.val).err # "" THEN fail(ParseInt(m.val).err)
            ELSE IF cur = None THEN fail("AssertionError")
            ELSE add(IntCapability(m.name, ParseInt(m.val).val))
       [] OTHER ->
            IF cur = None THEN fail("AssertionError")
            ELSE IF StringCapability(m.name, m.val).err # ""
              THEN fail(StringCapability(m.name, m.val).err)
            ELSE add(StringCapability(m.name, m.val).cap)

\* One pass of the parse loop, over the next match of the source.
ParseStep ==
  /\ pc = "parse" /\ error = ""
  /\ \E m \in Matches :
       /\ Run(Append(input, m), target_entry_name)
       /\ input' = Append(input, m)
       /\ LET r == ParseMatch(m, fragments, cur_fragment)
          IN /\ fragments' = r.frs
             /\ cur_fragment' = r.cur
             /\ error' = r.err
             /\ pc' = "parse"
  /\ UNCHANGED << source_entry_name, target_entry_name, parsed, fi,
                  terminfo_parts, terminfo, written >>

\* The source has no further match: the parse loop ends.
ParseEnd ==
  /\ pc = "parse" /\ error = ""
  /\ parsed' = fragments
  /\ pc' = IF fragments = <<>> THEN "patch" ELSE "expand"
  /\ UNCHANGED << input, source_entry_name, target_entry_name, fragments,
                  cur_fragment, fi, terminfo_parts, terminfo, written, error >>

\* One pass of the outer loop of "Expand 'use' capabilities" over the caps
\* of frag: the caps it leaves, or the exception it raises.
ExpandFragment(frs, frag) ==
  IF frag.caps = <<>> THEN [err |-> "", caps |-> frag.caps]
  ELSE LET cap == frag.caps[1].val
       IN IF cap.name # N_use
            THEN [err |-> "", caps |-> del_capability(frag.caps, cap.name)]
          ELSE IF cap.kind # "Str"
            THEN [err |-> "AssertionError", caps |-> frag.caps]
          ELSE IF cap.str \notin FragNamesOf(frs)
            THEN [err |-> "KeyError", caps |-> frag.caps]
          ELSE LET r == AddAll(frag.caps, FragCaps(frs, cap.str))
               IN IF r.err # "" THEN r
                  ELSE [err |-> "", caps |-> del_capability(r.caps, cap.name)]

ExpandStep ==
  /\ pc = "expand" /\ error = ""
  /\ LET frag == fragments[fi]
         r == ExpandFragment(fragments, frag)
     IN /\ fragments' = SetCaps(fragments, frag.name, r.caps)
        /\ error' = r.err
        /\ pc' = IF r.err = "" /\ fi = Len(fragments) THEN "patch" ELSE "expand"
        /\ fi' = IF r.err = "" THEN fi + 1 ELSE fi
  /\ UNCHANGED << input, source_entry_name, target_entry_name, cur_fragment,
                  parsed, terminfo_parts, terminfo, written >>

\* entry.add_capability(StringCapability(name, value)) after r
AddStr(r, name, value) ==
  IF r.err # "" THEN r
  ELSE IF StringCapability(name, value).err # ""
    THEN [err |-> StringCapability(name, value).err, caps |-> r.caps]
  ELSE add_capability(r.caps, StringCapability(name, value).cap)

\* entry.add_capability(IntCapability(name, value)) after r
AddInt(r, name, value) ==
  IF r.err # "" THEN r ELSE add_capability(r.caps, IntCapability(name, value))

\* The patch without the removal of RGB
PatchKeepingRGB(caps, target, sysname) ==
  AddStr(AddInt(AddStr(AddStr(AddInt([err |-> "", caps |-> caps], N_Co, 256),
                              N_TN, target), N_name, target), N_RGB, 8),
         N_query_os_name, sysname)

\* The patch of the entry's caps: try del RGB, then add Co, TN, name, RGB
\* and query-os-name.
Patch(caps, target, sysname) ==
  LET r0 == [err |-> "",
             caps |-> IF N_RGB \in Keys(caps) THEN del_capability(caps, N_RGB) ELSE caps]
      r1 == AddInt(r0, N_Co, 256)
      r2 == AddStr(r1, N_TN, target)
      r3 == AddStr(r2, N_name, target)
      r4 == AddInt(r3, N_RGB, 8)
  IN AddStr(r4, N_query_os_name, sysname)

\* entry = fragments[source_entry_name] and the patch of it; w is what has
\* been written when the step ends.
PatchBody(w) ==
  /\ pc = "patch" /\ error = ""
  /\ IF source_entry_name \notin FragNamesOf(fragments)
     THEN /\ error' = "KeyError"
          /\ pc' = "patch"
          /\ fragments' = fragments
     ELSE LET r == Patch(FragCaps(fragments, source_entry_name), target_entry_name, Sysname)
          IN /\ fragments' = SetCaps(fragments, source_entry_name, r.caps)
             /\ error' = r.err
             /\ pc' = IF r.err # "" THEN "patch" ELSE "serialize"
  /\ written' = w
  /\ UNCHANGED << input, source_entry_name, target_entry_name, cur_fragment,
                  parsed, fi, terminfo_parts, terminfo >>

\* The patch step with the first write moved ahead of it
PatchStepWritesFirst == PatchBody(Append(written, <<"#pragma once\n">>))

PatchStep == PatchBody(written)

\* sorted(): a stable sort by Capability.__lt__
RECURSIVE Insert(_, _)
Insert(sorted, c) ==
  IF sorted = <<>> THEN <<c>>
  ELSE IF CapLt(c, Head(sorted)) THEN <<c>> \o sorted
  ELSE <<Head(sorted)>> \o Insert(Tail(sorted), c)

RECURSIVE Sorted(_)
Sorted(s) == IF s = <<>> THEN <<>> ELSE Insert(Sorted(SubSeq(s, 1, Len(s) - 1)), s[Len(s)])

\* dict.values()
Values(d) == [i \in 1..Len(d) |-> d[i].val]

\* The Python literal '\"': the one character "
QuoteReplacement == <<DQ>>

\* name.replace('"', '\"'), value.replace('"', '\"')
EscapeQuotes(s) == Replace(s, <<DQ>>, QuoteReplacement)

\* The two fields a capability appends to terminfo_parts.
Fields(cap) ==
  << EscapeQuotes(cap.name),
     IF cap.kind = "Bool" THEN <<>> ELSE EscapeQuotes(ValueStr(cap)) >>

RECURSIVE Parts(_)
Parts(caps) == IF caps = <<>> THEN <<>> ELSE Fields(Head(caps)) \o Parts(Tail(caps))

\* The body of the serializer loop over sorted(entry.caps.values()).
TerminfoParts(caps) == Parts(Sorted(Values(caps)))

Delimiter == <<BS, "0", DQ, " ", DQ>>

\* sep.join(parts)
RECURSIVE Join(_, _)
Join(sep, parts) ==
  IF parts = <<>> THEN <<>>
  ELSE IF Len(parts) = 1 THEN parts[1]
  ELSE parts[1] \o sep \o Join(sep, Tail(parts))

SerializeStep ==
  /\ pc = "serialize"
  /\ terminfo_parts' = TerminfoParts(FragCaps(fragments, source_entry_name))
  /\ terminfo' = Join(Delimiter, terminfo_parts')
  /\ pc' = "write"
  /\ UNCHANGED << input, source_entry_name, target_entry_name, fragments,
                  cur_fragment, parsed, fi, written, error >>

\* The argument of the n-th target.write, as the pieces it concatenates.
Chunk(n) ==
  CASE n = 1 -> <<"#pragma once\n">>
    [] n = 2 -> <<"\n">>
    [] n = 3 -> <<"static const char terminfo_capabilities[] = ", DQ>> \o terminfo \o <<DQ, ";">>
    [] OTHER -> <<"\n">>

NumWrites == 4

WriteStep ==
  /\ pc = "write"
  /\ written' = Append(written, Chunk(Len(written) + 1))
  /\ pc' = IF Len(written') = NumWrites THEN "done" ELSE "write"
  /\ UNCHANGED << input, source_entry_name, target_entry_name, fragments,
                  cur_fragment, parsed, fi, terminfo_parts, terminfo, error >>

Next == ParseStep \/ ParseEnd \/ ExpandStep \/ PatchStep \/ SerializeStep \/ WriteStep

Spec == Init /\ [][Next]_vars

(***************************************************************************)
(* The serializer alone, on the caps of an entry in any insertion order.   *)
(***************************************************************************)
SortCaps ==
  { BoolCapability(<<"a">>), StringCapability(<<"a">>, <<"a">>).cap,
    IntCapability(<<"a", "b">>, 7), IntCapability(N_Co, 256), BoolCapability(N_RGB),
    StringCapability(<<"Z">>, <<"^", "A">>).cap }

SeqsUpTo(S, n) == UNION {[1..k -> S] : k \in 0..n}

\* The dicts of at most MaxSortCaps capabilities of SortCaps.
SortDicts ==
  { [i \in 1..Len(q) |-> [key |-> q[i].name, val |-> q[i]]] :
      q \in { r \in SeqsUpTo(SortCaps, MaxSortCaps) :
                \A i, j \in 1..Len(r) : i # j => r[i].name # r[j].name } }

SerInit ==
  /\ input = <<>>
  /\ source_entry_name = FA
  /\ target_entry_name = <<"f">>
  /\ \E d \in SortDicts : fragments = <<[name |-> FA, caps |-> d]>>
  /\ cur_fragment = FA
  /\ parsed = <<>>
  /\ fi = 2
  /\ terminfo_parts = <<>>
  /\ terminfo = <<>>
  /\ written = <<>>
  /\ pc = "serialize"
  /\ error = ""

SerNext == SerializeStep \/ WriteStep

SerSpec == SerInit /\ [][SerNext]_vars

(***************************************************************************)
(* Properties.                                                             *)
(***************************************************************************)
\* Every capability of before, other than 'use', is in after with its value.
Keeps(before, after) ==
  \A j \in 1..Len(before) :
    before[j].key # N_use =>
      /\ before[j].key \in Keys(after)
      /\ Get(after, before[j].key) = before[j].val

\* caps holds the String capability use=name
UsesFragment(caps, name) ==
  /\ N_use \in Keys(caps)
  /\ Get(caps, N_use).kind = "Str"
  /\ Get(caps, N_use).str = name

\* The expansion pass has just ended: nothing has touched fragments since.
JustExpanded == pc = "patch" /\ error = "" /\ parsed # <<>>

\* C1: for fragments A and B where A holds use=B, after the expansion pass
\* A holds every capability B defined and every capability A defined
\* (other than 'use'), and no 'use', wherever use=B stands in A and
\* whichever of A and B the source defines first.
C1_InheritanceCorrect ==
  JustExpanded =>
    \A a, b \in 1..Len(parsed) :
      (a # b /\ UsesFragment(parsed[a].caps, parsed[b].name)) =>
        /\ Keeps(parsed[b].caps, fragments[a].caps)
        /\ Keeps(parsed[a].caps, fragments[a].caps)
        /\ N_use \notin Keys(fragments[a].caps)

\* C7: the expansion pass removes only 'use' capabilities: every other
\* capability a fragment held before the pass it holds, with the same
\* value, after it.
C7_ExpansionRemovesOnlyUse ==
  JustExpanded =>
    \A i \in 1..Len(parsed) : Keeps(parsed[i].caps, fragments[i].caps)

\* Some fragment of frs holds a 'use' whose value names no fragment of frs.
UnknownUse(frs) ==
  \E i \in 1..Len(frs) :
    /\ N_use \in Keys(frs[i].caps)
    /\ Get(frs[i].caps, N_use).kind = "Str"
    /\ Get(frs[i].caps, N_use).str \notin FragNamesOf(frs)

\* The run has reached the serializer or the writes.
ReachedOutput == pc \in {"serialize", "write", "done"}

\* C4: a 'use' that names no registered fragment, at any position in its
\* fragment, or a source entry name that is not registered, ends the run
\* before the serializer and the writes.
C4_UnknownReferenceFatal ==
  ReachedOutput =>
    /\ ~UnknownUse(parsed)
    /\ source_entry_name \in FragNamesOf(parsed)

\* The expansion loop is about to copy the capabilities of another
\* fragment, t, into fragment fi.
Copying(t) ==
  /\ pc = "expand" /\ error = "" /\ t # fi
  /\ fragments[fi].caps # <<>>
  /\ UsesFragment(<<fragments[fi].caps[1]>>, fragments[t].name)

\* parsed is a chain: a uses b, b uses c
Chain(a, b, c) ==
  /\ a # b /\ b # c /\ a # c
  /\ UsesFragment(parsed[a].caps, parsed[b].name)
  /\ UsesFragment(parsed[b].caps, parsed[c].name)

\* C8: when the expansion copies B into A, B holds no 'use'; and for a
\* chain A use=B, B use=C the expansion ends with C's capabilities in A,
\* in whatever order the source defines A, B and C.
C8_DependencyOrder ==
  /\ \A t \in 1..Len(fragments) : Copying(t) => N_use \notin Keys(fragments[t].caps)
  /\ \A a, b, c \in 1..Len(parsed) :
       Chain(a, b, c) =>
         /\ ~(pc = "expand" /\ error # "")
         /\ JustExpanded => Keeps(parsed[c].caps, fragments[a].caps)

\* The fragment that fragment i of frs uses, 0 for none.
UseTarget(frs, i) ==
  IF i # 0 /\ N_use \in Keys(frs[i].caps) /\ Get(frs[i].caps, N_use).kind = "Str"
       /\ Get(frs[i].caps, N_use).str \in FragNamesOf(frs)
  THEN FragIndex(frs, Get(frs[i].caps, N_use).str)
  ELSE 0

RECURSIVE Follow(_, _, _)
Follow(frs, i, k) == IF k = 0 THEN i ELSE Follow(frs, UseTarget(frs, i), k - 1)

\* The 'use' references of frs hold a cycle (a self-reference is one).
HasCycle(frs) == \E i, k \in 1..Len(frs) : Follow(frs, i, k) = i

\* C9: a source whose 'use' references hold a cycle or a self-reference
\* never runs to completion, wherever the 'use' stands in its fragment.
C9_CycleFatal == pc = "done" => ~HasCycle(parsed)

Esc == <<BS, "0", "3", "3">>

At(p, i) == IF i >= 1 /\ i <= Len(p) THEN p[i] ELSE ""

\* The quote at p[i] is one of the two of an ESC/octal-digit split.
SplitQuote(p, i) ==
  \/ /\ i > 4 /\ SubSeq(p, i - 4, i - 1) = Esc
     /\ At(p, i + 1) = " " /\ At(p, i + 2) = DQ /\ At(p, i + 3) \in OctDigits
  \/ /\ i > 6 /\ SubSeq(p, i - 6, i - 3) = Esc
     /\ At(p, i - 2) = DQ /\ At(p, i - 1) = " " /\ At(p, i + 1) \in OctDigits

\* C10: in every emitted field, every double quote other than those of an
\* ESC/octal-digit split is preceded by a backslash.
C10_QuotesEscaped ==
  \A n \in 1..Len(terminfo_parts) :
    \A i \in 1..Len(terminfo_parts[n]) :
      terminfo_parts[n][i] = DQ =>
        \/ At(terminfo_parts[n], i - 1) = BS
        \/ SplitQuote(terminfo_parts[n], i)

\* Every fragment of frs holds one capability at most under each key, and
\* under key k the capability named k.
UniqueKeys(frs) ==
  \A i \in 1..Len(frs) :
    /\ \A j, k \in 1..Len(frs[i].caps) : j # k => frs[i].caps[j].key # frs[i].caps[k].key
    /\ \A j \in 1..Len(frs[i].caps) : frs[i].caps[j].key = frs[i].caps[j].val.name

\* The step replaces no capability: what a fragment held under a key it
\* holds unchanged, unless the key is gone.
NoReplace ==
  \A i \in 1..Len(fragments) :
    /\ i <= Len(fragments')
    /\ fragments'[i].name = fragments[i].name
    /\ \A j \in 1..Len(fragments[i].caps) :
         fragments[i].caps[j].key \in Keys(fragments'[i].caps) =>
           Get(fragments'[i].caps, fragments[i].caps[j].key) = fragments[i].caps[j].val

\* The step parses a capability whose name the current fragment holds.
DuplicateParsed ==
  /\ pc = "parse" /\ Len(input') > Len(input)
  /\ IsCap(input'[Len(input')])
  /\ cur_fragment # None
  /\ input'[Len(input')].name \in Keys(FragCaps(fragments, cur_fragment))

\* The step copies, for a 'use', a capability whose name the using
\* fragment holds.
DuplicateCopied ==
  /\ pc = "expand"
  /\ \E t \in 1..Len(fragments) :
       /\ fragments[fi].caps # <<>>
       /\ UsesFragment(<<fragments[fi].caps[1]>>, fragments[t].name)
       /\ Keys(fragments[t].caps) \cap Keys(fragments[fi].caps) # {}

\* C3: outside the patch, adding a capability whose name its fragment
\* holds ends the run in an error and replaces nothing; every fragment
\* holds one capability at most per name, under the key of its name.
C3_DuplicateRejected ==
  [][ /\ pc \in {"parse", "expand"} =>
           /\ NoReplace
           /\ DuplicateParsed => error' # ""
           /\ DuplicateCopied => error' = "AssertionError"
      /\ UniqueKeys(fragments') ]_vars

\* The expansion of fragment fi failed on a capability, other than its
\* 'use', that it shares with the fragment it uses.
C3_Witness ==
  /\ pc = "expand" /\ error = "AssertionError"
  /\ \E t \in 1..Len(fragments) :
       /\ t # fi
       /\ UsesFragment(<<fragments[fi].caps[1]>>, fragments[t].name)
       /\ N_use \notin Keys(fragments[t].caps)
       /\ Keys(fragments[t].caps) \cap Keys(fragments[fi].caps) # {}

\* C5: nothing is written unless the parse, the expansion, the patch and
\* the construction of the serialized string have ended without error; a
\* run that ends in an error has written nothing, one that ends without
\* has written everything.
C5_AllOrNothing ==
  /\ error # "" => written = <<>>
  /\ written # <<>> =>
       /\ pc \in {"write", "done"}
       /\ source_entry_name \in FragNamesOf(fragments)
       /\ terminfo_parts = TerminfoParts(FragCaps(fragments, source_entry_name))
       /\ terminfo = Join(Delimiter, terminfo_parts)
  /\ pc = "done" => Len(written) = NumWrites

\* The run ended in the patch, the last step that can fail, on the \l of
\* the target entry name, with nothing written.
C5_Witness ==
  /\ pc = "patch" /\ error = "NotImplementedError"
  /\ parsed # <<>>
  /\ written = <<>>

\* caps holds exactly one RGB = 8, one Co = 256, and TN and name = target.
Patched(caps, target) ==
  /\ \A n \in {N_RGB, N_Co, N_TN, N_name} :
       Cardinality({i \in 1..Len(caps) : caps[i].key = n}) = 1
  /\ Get(caps, N_RGB) = IntCapability(N_RGB, 8)
  /\ Get(caps, N_Co) = IntCapability(N_Co, 256)
  /\ Get(caps, N_TN) = [name |-> N_TN, kind |-> "Str", num |-> 0, str |-> target]
  /\ Get(caps, N_name) = [name |-> N_name, kind |-> "Str", num |-> 0, str |-> target]

\* The target entry name holds no escape sequence: StringCapability takes
\* it as it is.
PlainTarget ==
  /\ Translate(target_entry_name) = target_entry_name
  /\ ~HasBackslashL(target_entry_name)

Perms ==
  [n \in 0..MaxSortCaps |->
     { q \in [1..n -> 1..n] : \A i, j \in 1..n : i # j => q[i] # q[j] }]

\* C6: the serialized field list holds the capabilities in strictly
\* ascending order of name, each name once and followed by its value
\* field, and is the same for every insertion order of the capabilities;
\* the order looks at the name only.
C6_OrderIndependent ==
  pc \in {"write", "done"} =>
    LET caps == Values(FragCaps(fragments, source_entry_name))
        n == Len(caps)
    IN /\ Len(terminfo_parts) = 2 * n
       /\ \A k \in 1..(n - 1) :
            StrLt(terminfo_parts[2 * k - 1], terminfo_parts[2 * k + 1])
       /\ \A j \in 1..n : \E k \in 1..n :
            /\ terminfo_parts[2 * k - 1] = caps[j].name
            /\ terminfo_parts[2 * k] =
                 IF caps[j].kind = "Bool" THEN <<>> ELSE ValueStr(caps[j])
       /\ \A q \in Perms[n] :
            Parts(Sorted([i \in 1..n |-> caps[q[i]]])) = terminfo_parts

\* Capabilities of the three kinds, inserted in descending order of name,
\* have been serialized.
C6_Witness ==
  /\ pc = "write"
  /\ LET caps == Values(FragCaps(fragments, source_entry_name))
     IN /\ Len(caps) >= 3
        /\ \A i \in 1..(Len(caps) - 1) : StrLt(caps[i + 1].name, caps[i].name)
        /\ {caps[i].kind : i \in 1..Len(caps)} = {"Bool", "Int", "Str"}

=============================================================================
